---------------------------- MODULE Spec2Model ----------------------------
(***************************************************************************)
(* Model of backend/icd10_mapper.py: the catalog parser                    *)
(* (setup_icd10_data), the index builder (create_embedding_index), the     *)
(* hybrid matcher and batch loop (map_diagnoses), initialize_system and    *)
(* main, together with the files they persist between runs.                *)
(*                                                                         *)
(* Text is a sequence of character codes (ASCII), so that splitting,       *)
(* stripping, token sorting and the similarity score are computed on       *)
(* characters as Python and rapidfuzz compute them.  Python's None is the  *)
(* empty sequence <<>> and a present optional value x is <<x>>.            *)
(***************************************************************************)
EXTENDS Integers, Sequences, FiniteSets, TLC

VARIABLES
    codesTxt,     \* ./codes.txt: [exists, readable, lines]
    chunksJson,   \* icd10_kb/icd_chunks_3.json: [exists, data]
    codesJson,    \* icd10_kb/icd_codes_3.json: [exists, data]
    descsJson,    \* icd10_kb/icd_descriptions_3.json: [exists, data]
    faissFile,    \* icd10_index_3.faiss: [exists, vecs]
    pc,           \* position of the process: idle, map, loop, emit, done
    argv,         \* sys.argv[1:], the diagnoses of this run
    icd_codes,    \* map_diagnoses: the loaded code list
    icd_descs,    \* map_diagnoses: the loaded description list
    index,        \* map_diagnoses: the loaded vector index
    results,      \* map_diagnoses: the result list built by the loop
    raised,       \* positions (1-based) of the diagnoses whose processing raised
    encodeLog,    \* the texts handed to embedder.encode by the loop, in call order
    report,       \* what main printed as JSON: <<>> or <<[total_processed, results]>>
    exitStatus,   \* <<>> while running or never started, else <<status>>
    message,      \* the diagnostic the run printed ("" when none)
    shape         \* how the raw catalog lines were composed (parser specification only)

vars == <<codesTxt, chunksJson, codesJson, descsJson, faissFile, pc, argv,
          icd_codes, icd_descs, index, results, raised, encodeLog, report,
          exitStatus, message, shape>>

fileVars == <<codesTxt, chunksJson, codesJson, descsJson, faissFile>>
runVars == <<argv, icd_codes, icd_descs, index, results, raised, encodeLog,
             report, exitStatus, message>>

---------------------------------------------------------------------------
(* Bounds of the model *)

MaxDiags == 2

MaxLines == 2

MaxWords == 6

---------------------------------------------------------------------------
(* Python string operations *)

IsSpace(c) == c \in {9, 10, 11, 12, 13, 32}

RECURSIVE LStrip(_)
LStrip(s) ==
    IF s = <<>> THEN s
    ELSE IF IsSpace(Head(s)) THEN LStrip(Tail(s)) ELSE s

RECURSIVE RStrip(_)
RStrip(s) ==
    IF s = <<>> THEN s
    ELSE IF IsSpace(s[Len(s)]) THEN RStrip(SubSeq(s, 1, Len(s) - 1)) ELSE s

\* str.strip()
Strip(s) == RStrip(LStrip(s))

RECURSIVE WordLen(_)
WordLen(s) ==
    IF s = <<>> \/ IsSpace(Head(s)) THEN 0 ELSE 1 + WordLen(Tail(s))

\* str.split(None, maxsplit); maxsplit = -1 is no limit.  Runs of whitespace
\* separate, leading whitespace is dropped, and after maxsplit splits the
\* rest of the string (trailing whitespace included) is the last token.
RECURSIVE Split(_, _)
Split(s, maxsplit) ==
    LET t == LStrip(s)
    IN  IF t = <<>> THEN <<>>
        ELSE IF maxsplit = 0 THEN <<t>>
        ELSE LET n == WordLen(t)
             IN  <<SubSeq(t, 1, n)>> \o Split(SubSeq(t, n + 1, Len(t)), maxsplit - 1)

\* list[i] with Python's indexing: 0-based, negative i counts from the end.
InRange(list, i) == i < Len(list) /\ i >= 0 - Len(list)

PyGet(list, i) == IF i >= 0 THEN list[i + 1] ELSE list[Len(list) + i + 1]

---------------------------------------------------------------------------
(* setup_icd10_data: the catalog parser *)

\* A plausible slip: line.split() without the limit of 4 splits.
ParseLine_NoLimit(line) ==
    LET parts == Split(Strip(line), -1)
    IN  IF Len(parts) = 5
        THEN <<[code |-> parts[2],
                short_description |-> Strip(parts[4]),
                long_description |-> Strip(parts[5])]>>
        ELSE <<>>

\* Lines 31-38: the entries (none or one) a raw line produces.
ParseLine(line) ==
    LET parts == Split(Strip(line), 4)
    IN  IF Len(parts) = 5
        THEN <<[code |-> parts[2],
                short_description |-> Strip(parts[4]),
                long_description |-> Strip(parts[5])]>>
        ELSE <<>>

RECURSIVE ParseLines(_)
ParseLines(lines) ==
    IF lines = <<>> THEN <<>>
    ELSE ParseLine(Head(lines)) \o ParseLines(Tail(lines))

\* f"ICD Code: {code}. Description: {long_description}"
ChunkText(e) ==
    <<73, 67, 68, 32, 67, 111, 100, 101, 58, 32>> \o e.code
    \o <<46, 32, 68, 101, 115, 99, 114, 105, 112, 116, 105, 111, 110, 58, 32>>
    \o e.long_description

RECURSIVE Chunks(_)
Chunks(entries) ==
    IF entries = <<>> THEN <<>>
    ELSE <<ChunkText(Head(entries))>> \o Chunks(Tail(entries))

RECURSIVE Codes(_)
Codes(entries) ==
    IF entries = <<>> THEN <<>>
    ELSE <<Head(entries).code>> \o Codes(Tail(entries))

RECURSIVE Descriptions(_)
Descriptions(entries) ==
    IF entries = <<>> THEN <<>>
    ELSE <<Head(entries).long_description>> \o Descriptions(Tail(entries))

\* The outcome of setup_icd10_data on a catalog file: "False" when the file
\* is missing (FileNotFoundError is caught), "raise" when open() fails in
\* another way (not caught), else "True" with the three lists it writes.
SetupIcd10Data(file) ==
    LET entries == ParseLines(file.lines)
    IN  IF ~file.exists
        THEN [status |-> "False", error |-> "codes.txt file not found",
              chunks |-> <<>>, codes |-> <<>>, descs |-> <<>>]
        ELSE IF ~file.readable
        THEN [status |-> "raise", error |-> "traceback: PermissionError",
              chunks |-> <<>>, codes |-> <<>>, descs |-> <<>>]
        ELSE [status |-> "True", error |-> "",
              chunks |-> Chunks(entries),
              codes  |-> Codes(entries),
              descs  |-> Descriptions(entries)]

---------------------------------------------------------------------------
(* The embedder and the vector index (external capabilities, stubbed) *)

RECURSIVE Count(_, _)
Count(s, c) ==
    IF s = <<>> THEN 0
    ELSE (IF Head(s) = c THEN 1 ELSE 0) + Count(Tail(s), c)

\* embedder.encode of one text: a deterministic stub, the vector of the
\* numbers of 'a' and of 'b' in the text.
Embed(text) == <<Count(text, 97), Count(text, 98)>>

RECURSIVE EncodeAll(_)
EncodeAll(texts) ==
    IF texts = <<>> THEN <<>>
    ELSE <<Embed(Head(texts))>> \o EncodeAll(Tail(texts))

\* IndexFlatL2's metric, the squared Euclidean distance, counted in tenths:
\* a value of 8 stands for the distance 0.8.
Dist(u, v) == (u[1] - v[1]) * (u[1] - v[1]) + (u[2] - v[2]) * (u[2] - v[2])

\* The distance faiss reports for a slot of the k it could not fill (the
\* largest float32; here the largest integer TLC represents).
FLT_MAX == 2147483647

\* The outcome of create_embedding_index: "False" when the chunk file is
\* missing, "raise" when the model fails to load (line 66) or when the chunk
\* list is empty (embeddings[0] at line 70 raises IndexError, uncaught),
\* else "True" with the vectors written to the index file.
CreateEmbeddingIndex(chunksFile, modelLoads) ==
    IF ~chunksFile.exists
    THEN [status |-> "False", error |-> "ICD chunks file not found", vecs |-> <<>>]
    ELSE IF ~modelLoads
    THEN [status |-> "raise", error |-> "traceback: model failed to load", vecs |-> <<>>]
    ELSE IF chunksFile.data = <<>>
    THEN [status |-> "raise", error |-> "traceback: IndexError", vecs |-> <<>>]
    ELSE [status |-> "True", error |-> "", vecs |-> EncodeAll(chunksFile.data)]

\* Whether position p (0-based) comes before position q in the order of a
\* search: ascending distance, the lower position first among equals.
Nearer(idx, query, p, q) ==
    \/ Dist(idx[p + 1], query) < Dist(idx[q + 1], query)
    \/ Dist(idx[p + 1], query) = Dist(idx[q + 1], query) /\ p < q

\* index.search(query, k): k slots [pos, dist] in ascending distance; a slot
\* the index cannot fill holds position -1 and distance FLT_MAX.
Search(idx, query, k) ==
    [r \in 1..k |->
        IF r > Len(idx) THEN [pos |-> -1, dist |-> FLT_MAX]
        ELSE LET p == CHOOSE p \in 0..(Len(idx) - 1) :
                        Cardinality({q \in 0..(Len(idx) - 1) :
                                        Nearer(idx, query, q, p)}) = r - 1
             IN  [pos |-> p, dist |-> Dist(idx[p + 1], query)]]

---------------------------------------------------------------------------
(* rapidfuzz: fuzz.token_sort_ratio and process.extractOne *)

RECURSIVE LexLess(_, _)
LexLess(s, t) ==
    IF t = <<>> THEN FALSE
    ELSE IF s = <<>> THEN TRUE
    ELSE IF Head(s) # Head(t) THEN Head(s) < Head(t)
    ELSE LexLess(Tail(s), Tail(t))

RECURSIVE Insert(_, _)
Insert(w, sorted) ==
    IF sorted = <<>> THEN <<w>>
    ELSE IF LexLess(Head(sorted), w) THEN <<Head(sorted)>> \o Insert(w, Tail(sorted))
    ELSE <<w>> \o sorted

RECURSIVE SortWords(_)
SortWords(ws) == IF ws = <<>> THEN <<>> ELSE Insert(Head(ws), SortWords(Tail(ws)))

RECURSIVE JoinWith(_, _)
JoinWith(ws, sep) ==
    IF ws = <<>> THEN <<>>
    ELSE IF Len(ws) = 1 THEN ws[1]
    ELSE ws[1] \o sep \o JoinWith(Tail(ws), sep)

\* The text token_sort_ratio compares: the whitespace-separated tokens,
\* sorted, joined by one space.
TokenSort(s) == JoinWith(SortWords(Split(s, -1)), <<32>>)

Max(a, b) == IF a >= b THEN a ELSE b

RECURSIVE LcsRow(_, _, _, _, _)
LcsRow(prev, c, t, j, acc) ==
    IF j > Len(t) THEN acc
    ELSE LcsRow(prev, c, t, j + 1,
                Append(acc, IF c = t[j] THEN prev[j] + 1
                            ELSE Max(prev[j + 1], acc[j])))

RECURSIVE LcsRows(_, _, _, _)
LcsRows(s, t, i, prev) ==
    IF i > Len(s) THEN prev[Len(t) + 1]
    ELSE LcsRows(s, t, i + 1, LcsRow(prev, s[i], t, 1, <<0>>))

Lcs(s, t) == LcsRows(s, t, 1, [j \in 1..(Len(t) + 1) |-> 0])

\* fuzz.ratio: the normalized Indel similarity, 100 * 2*LCS / (len1 + len2),
\* here rounded down to an integer (a comparison with an integer threshold
\* is the same on the rounded and on the exact score).
Ratio(s, t) ==
    IF Len(s) + Len(t) = 0 THEN 100
    ELSE (200 * Lcs(s, t)) \div (Len(s) + Len(t))

\* "1 X1 0 s bb aa", "bad line", "2 X2 0 s aa bb", "3 X3 1 t aaa bbb"
FileA ==
    << <<49, 32, 88, 49, 32, 48, 32, 115, 32, 98, 98, 32, 97, 97, 10>>,
       <<98, 97, 100, 32, 108, 105, 110, 101, 10>>,
       <<50, 32, 88, 50, 32, 48, 32, 115, 32, 97, 97, 32, 98, 98, 10>>,
       <<51, 32, 88, 51, 32, 49, 32, 116, 32, 97, 97, 97, 32, 98, 98, 98, 10>> >>

\* "9 Z9 0 u ab"
FileB == << <<57, 32, 90, 57, 32, 48, 32, 117, 32, 97, 98, 10>> >>

\* "malformed": a catalog file none of whose lines is an entry
FileE == << <<109, 97, 108, 102, 111, 114, 109, 101, 100, 10>> >>

CatalogFiles == {FileA, FileB, FileE}

\* "aa bb", "aa bbb", "cc", "aaaaaa"
Diagnoses ==
    { <<97, 97, 32, 98, 98>>, <<97, 97, 32, 98, 98, 98>>, <<99, 99>>,
      <<97, 97, 97, 97, 97, 97>> }

\* fuzz.token_sort_ratio with processor=None
TokenSortRatio(s, t) == Ratio(TokenSort(s), TokenSort(t))

ScoreCutoff == 85

HighCutoff == 95

DistCutoff == 8

\* The score of every choice, in the order of the choices.
RECURSIVE Scores(_, _)
Scores(query, choices) ==
    IF choices = <<>> THEN <<>>
    ELSE <<TokenSortRatio(query, Head(choices))>> \o Scores(query, Tail(choices))

\* A plausible slip: the last of the best-scoring choices instead of the first.
ExtractOne_LastBest(query, choices) ==
    LET sc == Scores(query, choices)
        ok == {i \in 1..Len(sc) : sc[i] >= ScoreCutoff}
    IN  IF ok = {} THEN [found |-> FALSE, score |-> 0, idx |-> 0]
        ELSE LET b == CHOOSE i \in ok :
                        \A j \in ok : sc[j] < sc[i] \/ (sc[j] = sc[i] /\ j <= i)
             IN  [found |-> TRUE, score |-> sc[b], idx |-> b - 1]

\* process.extractOne(query, choices, scorer=token_sort_ratio, score_cutoff=85):
\* nothing when no choice scores at least the cutoff, else the first choice
\* of the highest score, with its score and its 0-based position.
ExtractOne(query, choices) ==
    LET sc == Scores(query, choices)
        ok == {i \in 1..Len(sc) : sc[i] >= ScoreCutoff}
    IN  IF ok = {} THEN [found |-> FALSE, score |-> 0, idx |-> 0]
        ELSE LET b == CHOOSE i \in ok :
                        \A j \in ok : sc[j] < sc[i] \/ (sc[j] = sc[i] /\ i <= j)
             IN  [found |-> TRUE, score |-> sc[b], idx |-> b - 1]

---------------------------------------------------------------------------
(* map_diagnoses: one diagnosis *)

\* A plausible slip: the High threshold applied with the cutoff's value.
KeywordConfidence_CutoffAsHigh(score) == IF score >= ScoreCutoff THEN "High" ELSE "Medium"

\* Line 126
KeywordConfidence(score) == IF score >= HighCutoff THEN "High" ELSE "Medium"

\* A plausible slip: >= instead of > at the distance cutoff.
SemanticConfidence_AtCutoffLow(d) == IF d >= DistCutoff THEN "Low" ELSE "Medium"

\* Line 136
SemanticConfidence(d) == IF d > DistCutoff THEN "Low" ELSE "Medium"

\* Lines 149-156: the result of a diagnosis whose processing raised.
ErrorResult(diag, msg) ==
    [original_diagnosis  |-> diag,
     matched_icd_code    |-> <<>>,
     matched_description |-> <<>>,
     confidence_level    |-> "Error",
     justification       |-> [kind |-> "error", value |-> 0, confidence |-> "",
                              error |-> msg],
     alternative_codes   |-> <<>>]

\* Lines 113-156, the body of the loop for one diagnosis, on the loaded
\* lists and index.  kw is what process.extractOne gave for the diagnosis
\* (lines 115-121); fault is what the external calls of the semantic branch
\* do for this item: "none", or "raise" (embedder.encode or index.search
\* raises).  Gives the result appended, whether an exception was caught,
\* and whether embedder.encode was called.
MatchOne(diag, kw, codes, descs, idx, fault) ==
    LET hits == Search(idx, Embed(diag), 3)
        top  == hits[1].pos
    IN  IF kw.found
        THEN IF ~InRange(codes, kw.idx)
             THEN [result |-> ErrorResult(diag, "list index out of range"),
                   raised |-> TRUE, encoded |-> FALSE]
             ELSE [result |->
                      [original_diagnosis  |-> diag,
                       matched_icd_code    |-> <<PyGet(codes, kw.idx)>>,
                       matched_description |-> <<PyGet(descs, kw.idx)>>,
                       confidence_level    |-> KeywordConfidence(kw.score),
                       justification       |-> [kind |-> "keyword", value |-> kw.score,
                                                confidence |-> KeywordConfidence(kw.score),
                                                error |-> ""],
                       alternative_codes   |-> <<>>],
                   raised |-> FALSE, encoded |-> FALSE]
        ELSE IF fault = "raise"
        THEN [result |-> ErrorResult(diag, "external call failed"),
              raised |-> TRUE, encoded |-> TRUE]
        ELSE IF \E j \in 1..3 : ~InRange(codes, hits[j].pos) \/ ~InRange(descs, hits[j].pos)
        THEN [result |-> ErrorResult(diag, "list index out of range"),
              raised |-> TRUE, encoded |-> TRUE]
        ELSE [result |->
                 [original_diagnosis  |-> diag,
                  matched_icd_code    |-> <<PyGet(codes, top)>>,
                  matched_description |-> <<PyGet(descs, top)>>,
                  confidence_level    |-> SemanticConfidence(hits[1].dist),
                  justification       |-> [kind |-> "semantic", value |-> hits[1].dist,
                                           confidence |-> SemanticConfidence(hits[1].dist),
                                           error |-> ""],
                  alternative_codes   |->
                      <<[code |-> PyGet(codes, hits[2].pos), distance |-> hits[2].dist],
                        [code |-> PyGet(codes, hits[3].pos), distance |-> hits[3].dist]>>],
              raised |-> FALSE, encoded |-> TRUE]

---------------------------------------------------------------------------
(* The runs *)

RECURSIVE SeqsOfLen(_, _)
SeqsOfLen(S, n) ==
    IF n = 0 THEN {<<>>}
    ELSE {Append(q, x) : q \in SeqsOfLen(S, n - 1), x \in S}

DiagLists == UNION {SeqsOfLen(Diagnoses, n) : n \in 1..MaxDiags}

Faults == {"none", "raise"}

Absent == [exists |-> FALSE, data |-> <<>>]

NoIndex == [exists |-> FALSE, vecs |-> <<>>]

---------------------------------------------------------------------------
(* The process *)

Init ==
    /\ codesTxt \in {[exists |-> FALSE, readable |-> FALSE, lines |-> <<>>]}
                    \cup {[exists |-> TRUE, readable |-> TRUE, lines |-> f] : f \in CatalogFiles}
    /\ chunksJson = Absent
    /\ codesJson = Absent
    /\ descsJson = Absent
    /\ faissFile = NoIndex
    /\ pc = "idle"
    /\ argv = <<>>
    /\ icd_codes = <<>>
    /\ icd_descs = <<>>
    /\ index = <<>>
    /\ results = <<>>
    /\ raised = {}
    /\ encodeLog = <<>>
    /\ report = <<>>
    /\ exitStatus = <<>>
    /\ message = ""
    /\ shape = <<>>

\* The variables of a process that has not run yet.
NoRun ==
    /\ icd_codes' = <<>>
    /\ icd_descs' = <<>>
    /\ index' = <<>>
    /\ results' = <<>>
    /\ raised' = {}
    /\ encodeLog' = <<>>
    /\ report' = <<>>

\* A process is started when none is running.
FreshRun ==
    /\ pc = "idle"
    /\ NoRun

\* main, lines 181-184: no diagnosis on the command line.
MainUsage ==
    /\ FreshRun
    /\ argv' = <<>>
    /\ message' = "usage"
    /\ exitStatus' = <<1>>
    /\ pc' = "done"
    /\ UNCHANGED <<fileVars, shape>>

\* main, lines 186-191, with initialize_system (lines 160-177) and the
\* setup_icd10_data and create_embedding_index it calls.
MainInitialize ==
    \E modelLoads \in BOOLEAN :
        LET needSetup  == ~codesJson.exists
            su         == SetupIcd10Data(codesTxt)
            setupDone  == needSetup /\ su.status = "True"
            setupFails == needSetup /\ su.status # "True"
            chunksNow  == IF setupDone THEN [exists |-> TRUE, data |-> su.chunks]
                          ELSE chunksJson
            needIndex  == ~setupFails /\ ~faissFile.exists
            ci         == CreateEmbeddingIndex(chunksNow, modelLoads)
            indexDone  == needIndex /\ ci.status = "True"
            outcome    == IF setupFails THEN su.status
                          ELSE IF needIndex /\ ~indexDone THEN ci.status
                          ELSE "True"
        IN  /\ FreshRun
            /\ argv' \in DiagLists
            /\ chunksJson' = chunksNow
            /\ codesJson' = IF setupDone THEN [exists |-> TRUE, data |-> su.codes]
                            ELSE codesJson
            /\ descsJson' = IF setupDone THEN [exists |-> TRUE, data |-> su.descs]
                            ELSE descsJson
            /\ faissFile' = IF indexDone THEN [exists |-> TRUE, vecs |-> ci.vecs]
                            ELSE faissFile
            /\ message' = IF setupFails THEN su.error
                          ELSE IF needIndex /\ ~indexDone THEN ci.error
                          ELSE ""
            /\ exitStatus' = IF outcome = "True" THEN <<>> ELSE <<1>>
            /\ pc' = IF outcome = "True" THEN "map" ELSE "done"
            /\ UNCHANGED <<codesTxt, shape>>

\* map_diagnoses, lines 87-110: the assets are loaded; any failure (a file
\* missing, the model failing to load) is caught and [] is returned.
MapLoadAssets ==
    /\ pc = "map"
    /\ \E modelLoads \in BOOLEAN :
        IF /\ chunksJson.exists /\ codesJson.exists /\ descsJson.exists
           /\ faissFile.exists /\ modelLoads
        THEN /\ icd_codes' = codesJson.data
             /\ icd_descs' = descsJson.data
             /\ index' = faissFile.vecs
             /\ message' = message
             /\ pc' = "loop"
        ELSE /\ message' = "Error loading assets"
             /\ pc' = "emit"
             /\ UNCHANGED <<icd_codes, icd_descs, index>>
    /\ UNCHANGED <<fileVars, argv, results, raised, encodeLog, report, exitStatus, shape>>

\* A plausible slip: an exception ends the loop instead of becoming a result.
ProcessDiagnosis_AbortOnError ==
    /\ pc = "loop"
    /\ LET i  == Len(results) + 1
           kw == ExtractOne(argv[i], icd_descs)
       IN  \E fault \in Faults :
            LET m == MatchOne(argv[i], kw, icd_codes, icd_descs, index, fault)
            IN  /\ results' = IF m.raised THEN results ELSE Append(results, m.result)
                /\ raised' = IF m.raised THEN raised \cup {i} ELSE raised
                /\ encodeLog' = IF m.encoded THEN Append(encodeLog, argv[i])
                                ELSE encodeLog
                /\ pc' = IF m.raised \/ i = Len(argv) THEN "emit" ELSE "loop"
    /\ UNCHANGED <<fileVars, argv, icd_codes, icd_descs, index, report, exitStatus,
                   message, shape>>

\* map_diagnoses, lines 112-158: one turn of the loop, and the return after
\* the last.
ProcessDiagnosis ==
    /\ pc = "loop"
    /\ LET i  == Len(results) + 1
           kw == ExtractOne(argv[i], icd_descs)
       IN  \E fault \in Faults :
            LET m == MatchOne(argv[i], kw, icd_codes, icd_descs, index, fault)
            IN  /\ results' = Append(results, m.result)
                /\ raised' = IF m.raised THEN raised \cup {i} ELSE raised
                /\ encodeLog' = IF m.encoded THEN Append(encodeLog, argv[i])
                                ELSE encodeLog
                /\ pc' = IF i = Len(argv) THEN "emit" ELSE "loop"
    /\ UNCHANGED <<fileVars, argv, icd_codes, icd_descs, index, report, exitStatus,
                   message, shape>>

\* main, lines 196-202: the report is printed and the process ends normally.
EmitReport ==
    /\ pc = "emit"
    /\ report' = <<[total_processed |-> Len(argv), results |-> results]>>
    /\ exitStatus' = <<0>>
    /\ pc' = "done"
    /\ UNCHANGED <<fileVars, argv, icd_codes, icd_descs, index, results, raised,
                   encodeLog, message, shape>>

---------------------------------------------------------------------------
(* The environment, between two runs *)

Between ==
    /\ pc = "idle"
    /\ UNCHANGED <<pc, runVars, shape>>

\* The process has ended (sys.exit, an uncaught exception, or the end of
\* main): nothing of it but the files and what it printed is left, and the
\* next run starts from the files alone.
ProcessEnds ==
    /\ pc = "done"
    /\ NoRun
    /\ pc' = "idle"
    /\ argv' = <<>>
    /\ exitStatus' = <<>>
    /\ message' = ""
    /\ UNCHANGED <<fileVars, shape>>

EnvReplaceCatalog ==
    /\ Between
    /\ \E f \in CatalogFiles :
        codesTxt' = [exists |-> TRUE, readable |-> TRUE, lines |-> f]
    /\ codesTxt' # codesTxt
    /\ UNCHANGED <<chunksJson, codesJson, descsJson, faissFile>>

EnvProtectCatalog ==
    /\ Between
    /\ codesTxt.exists /\ codesTxt.readable
    /\ codesTxt' = [codesTxt EXCEPT !.readable = FALSE]
    /\ UNCHANGED <<chunksJson, codesJson, descsJson, faissFile>>

EnvDeleteCatalog ==
    /\ Between
    /\ codesTxt.exists
    /\ codesTxt' = [exists |-> FALSE, readable |-> FALSE, lines |-> <<>>]
    /\ UNCHANGED <<chunksJson, codesJson, descsJson, faissFile>>

EnvDeleteChunks ==
    /\ Between
    /\ chunksJson.exists
    /\ chunksJson' = Absent
    /\ UNCHANGED <<codesTxt, codesJson, descsJson, faissFile>>

EnvDeleteCodes ==
    /\ Between
    /\ codesJson.exists
    /\ codesJson' = Absent
    /\ UNCHANGED <<codesTxt, chunksJson, descsJson, faissFile>>

EnvDeleteIndex ==
    /\ Between
    /\ faissFile.exists
    /\ faissFile' = NoIndex
    /\ UNCHANGED <<codesTxt, chunksJson, codesJson, descsJson>>

Next ==
    \/ MainUsage
    \/ MainInitialize
    \/ MapLoadAssets
    \/ ProcessDiagnosis
    \/ EmitReport
    \/ ProcessEnds
    \/ EnvReplaceCatalog
    \/ EnvProtectCatalog
    \/ EnvDeleteCatalog
    \/ EnvDeleteChunks
    \/ EnvDeleteCodes
    \/ EnvDeleteIndex

Spec == Init /\ [][Next]_vars

---------------------------------------------------------------------------
(* The parser on composed catalog lines *)

\* "1", "X1", "0", "s", "aa", "bb", "cc", "dd"
WordsX == << <<49>>, <<88, 49>>, <<48>>, <<115>>, <<97, 97>>, <<98, 98>>, <<99, 99>>,
             <<100, 100>> >>

\* "2", "Y2", "1", "t", "bb", "aa", "c", "d"
WordsY == << <<50>>, <<89, 50>>, <<49>>, <<116>>, <<98, 98>>, <<97, 97>>, <<99>>,
             <<100>> >>

\* How a line is laid out: its words, what precedes the first, what
\* separates two, what follows the last ("\n", " \n", or nothing at the end
\* of a file without a final newline).
Layouts ==
    { [words |-> WordsX, lead |-> <<>>,   sep |-> <<32>>,     trail |-> <<10>>],
      [words |-> WordsY, lead |-> <<32>>, sep |-> <<9, 32>>,  trail |-> <<32, 10>>],
      [words |-> WordsX, lead |-> <<>>,   sep |-> <<32, 32>>, trail |-> <<>>] }

\* The lines: the first n words of a layout, n from 0 to MaxWords.
LineShapes ==
    { [words |-> SubSeq(l.words, 1, n), lead |-> l.lead, sep |-> l.sep, trail |-> l.trail] :
        n \in 0..MaxWords, l \in Layouts }

RawLine(sh) == sh.lead \o JoinWith(sh.words, sh.sep) \o sh.trail

RECURSIVE RawLines(_)
RawLines(shapes) ==
    IF shapes = <<>> THEN <<>>
    ELSE <<RawLine(Head(shapes))>> \o RawLines(Tail(shapes))

InitParse ==
    /\ shape \in UNION {SeqsOfLen(LineShapes, n) : n \in 0..MaxLines}
    \* f.readlines(): only the last line may lack its newline
    /\ \A i \in 1..(Len(shape) - 1) : shape[i].trail # <<>>
    /\ codesTxt = [exists |-> TRUE, readable |-> TRUE, lines |-> RawLines(shape)]
    /\ chunksJson = Absent
    /\ codesJson = Absent
    /\ descsJson = Absent
    /\ faissFile = NoIndex
    /\ pc = "idle"
    /\ argv = <<>>
    /\ icd_codes = <<>>
    /\ icd_descs = <<>>
    /\ index = <<>>
    /\ results = <<>>
    /\ raised = {}
    /\ encodeLog = <<>>
    /\ report = <<>>
    /\ exitStatus = <<>>
    /\ message = ""

\* setup_icd10_data called on its own (lines 20-53).
RunSetup ==
    /\ pc = "idle"
    /\ LET su == SetupIcd10Data(codesTxt)
       IN  /\ chunksJson' = IF su.status = "True" THEN [exists |-> TRUE, data |-> su.chunks]
                            ELSE chunksJson
           /\ codesJson' = IF su.status = "True" THEN [exists |-> TRUE, data |-> su.codes]
                           ELSE codesJson
           /\ descsJson' = IF su.status = "True" THEN [exists |-> TRUE, data |-> su.descs]
                           ELSE descsJson
           /\ message' = IF su.status = "True" THEN "ICD-10 metadata processed."
                         ELSE su.error
    /\ pc' = "done"
    /\ UNCHANGED <<codesTxt, faissFile, argv, icd_codes, icd_descs, index, results,
                   raised, encodeLog, report, exitStatus, shape>>

NextParse == RunSetup

SpecParse == InitParse /\ [][NextParse]_vars

---------------------------------------------------------------------------
(* Properties *)

\* The loop has run on loaded assets (in these states results, icd_codes,
\* icd_descs and index are those of the running or just ended process).
Processed == 1..Len(results)

\* The distance of the query of diagnosis d to the vector at position p (1-based).
DistTo(d, p) == Dist(index[p], Embed(d))

\* C1: every emitted report has total_processed = length(diagnoses) and one
\* result per diagnosis, results[i].original_diagnosis = diagnoses[i],
\* whatever the outcome of the asset loading in map_diagnoses.
C1_ReportCoversEveryDiagnosis ==
    report # <<>> =>
        /\ report[1].total_processed = Len(argv)
        /\ Len(report[1].results) = Len(argv)
        /\ \A i \in 1..Len(argv) : report[1].results[i].original_diagnosis = argv[i]

\* C2: a diagnosis whose processing raised has exactly one result, with
\* confidence Error, no code, no description and the error message; every
\* other diagnosis has the result it has when processed on its own; the
\* loop goes on to the end of the batch and results keep the input order.
C2_PerItemErrorIsolated ==
    /\ raised \subseteq Processed
    /\ Len(results) <= Len(argv)
    /\ (pc = "loop") => Len(results) < Len(argv)
    /\ (pc \in {"emit", "done"} /\ message = "" /\ argv # <<>>) => Len(results) = Len(argv)
    /\ \A i \in Processed :
        /\ results[i].original_diagnosis = argv[i]
        /\ i \in raised =>
              /\ results[i].confidence_level = "Error"
              /\ results[i].matched_icd_code = <<>>
              /\ results[i].matched_description = <<>>
              /\ results[i].justification.kind = "error"
              /\ results[i].justification.error # ""
              /\ results[i].alternative_codes = <<>>
        /\ i \notin raised =>
              /\ results[i].confidence_level \in {"High", "Medium", "Low"}
              /\ results[i] = MatchOne(argv[i], ExtractOne(argv[i], icd_descs), icd_codes,
                                       icd_descs, index, "none").result

\* C2 witness: a batch of two has ended with a report, the first diagnosis
\* raised and the second has a regular result.
C2_Witness ==
    /\ pc = "done"
    /\ report # <<>>
    /\ Len(argv) >= 2
    /\ raised = {1}
    /\ report[1].results[1].confidence_level = "Error"
    /\ report[1].results[2].confidence_level \in {"High", "Medium", "Low"}

\* C3: a run whose initialization failed fatally (catalog, index or model
\* unavailable, detected in initialize_system or while map_diagnoses loads
\* its assets) ends with a non-zero exit status and emits no report.
C3_FatalInitAbortsRun ==
    (pc = "done" /\ message \notin {"", "usage"}) =>
        /\ report = <<>>
        /\ exitStatus # <<>>
        /\ exitStatus # <<0>>

\* C4: when initialize_system has reported success, the index file holds one
\* vector per catalog entry (as many as codes and as descriptions), the
\* vector at position i being the embedding of the chunk text of entry i.
C4_IndexAlignedAfterInit ==
    pc = "map" =>
        /\ faissFile.exists /\ codesJson.exists /\ descsJson.exists
        /\ Len(faissFile.vecs) = Len(codesJson.data)
        /\ Len(descsJson.data) = Len(codesJson.data)
        /\ \A i \in 1..Len(codesJson.data) :
              faissFile.vecs[i] = Embed(ChunkText([code |-> codesJson.data[i],
                                                   long_description |-> descsJson.data[i]]))

\* Whether two texts have the same whitespace-separated tokens, in any order.
SameTokens(s, t) == SortWords(Split(s, -1)) = SortWords(Split(t, -1))

\* C5 as stated: a diagnosis identical to the long_description of entry k is
\* matched to entry k itself (its code and description), with score 100,
\* confidence High and no alternatives, whatever precedes entry k.
C5_ExactDescriptionSelectsItsEntry ==
    \A i \in Processed :
        \A k \in 1..Len(icd_descs) :
            argv[i] = icd_descs[k] =>
                /\ results[i].justification.kind = "keyword"
                /\ results[i].justification.value = 100
                /\ results[i].confidence_level = "High"
                /\ results[i].alternative_codes = <<>>
                /\ results[i].matched_icd_code = <<icd_codes[k]>>
                /\ results[i].matched_description = <<icd_descs[k]>>

\* C5 amended: a diagnosis identical to the long_description of some entry is
\* matched, with score 100, confidence High and no alternatives, to the
\* first entry of the catalog whose long_description has the same tokens as
\* the diagnosis in any order (the entry itself when no earlier entry is
\* such a permutation or a duplicate).
C5_ExactDescriptionSelectsFirstPermutation ==
    \A i \in Processed :
        (\E k \in 1..Len(icd_descs) : argv[i] = icd_descs[k]) =>
            LET f == CHOOSE f \in 1..Len(icd_descs) :
                        /\ SameTokens(icd_descs[f], argv[i])
                        /\ \A g \in 1..(f - 1) : ~SameTokens(icd_descs[g], argv[i])
            IN  /\ results[i].justification.kind = "keyword"
                /\ results[i].justification.value = 100
                /\ results[i].confidence_level = "High"
                /\ results[i].alternative_codes = <<>>
                /\ results[i].matched_icd_code = <<icd_codes[f]>>
                /\ results[i].matched_description = <<icd_descs[f]>>

\* C5 witness: a diagnosis identical to the description of an entry that is
\* preceded by a permutation of it has been matched, to the earlier entry.
C5_Witness ==
    \E i \in Processed :
        \E k \in 1..Len(icd_descs) :
            /\ argv[i] = icd_descs[k]
            /\ \E g \in 1..(k - 1) :
                  /\ SameTokens(icd_descs[g], argv[i])
                  /\ icd_descs[g] # icd_descs[k]
                  /\ results[i].matched_icd_code = <<icd_codes[g]>>
            /\ results[i].confidence_level = "High"

\* The highest of a list of scores (-1 when there is none).
Highest(sc) ==
    IF sc = <<>> THEN -1
    ELSE CHOOSE v \in {sc[k] : k \in 1..Len(sc)} : \A k \in 1..Len(sc) : sc[k] <= v

\* The highest score of a diagnosis over the loaded descriptions.
BestScore(d) == Highest(Scores(d, icd_descs))

\* C6: the lexical stage accepts the best-scoring entry exactly when its
\* score is at least 85; then confidence is High from 95 and Medium below,
\* code and description are those of one catalog position of that score,
\* and there are no alternatives.
C6_LexicalAcceptance ==
    \A i \in Processed :
        LET sc   == Scores(argv[i], icd_descs)
            best == Highest(sc)
            r    == results[i]
        IN  /\ (r.justification.kind = "keyword") <=> (best >= 85)
            /\ (r.justification.kind = "keyword") =>
                  /\ r.justification.value = best
                  /\ r.confidence_level = (IF best >= 95 THEN "High" ELSE "Medium")
                  /\ r.justification.confidence = r.confidence_level
                  /\ r.alternative_codes = <<>>
                  /\ \E k \in 1..Len(icd_descs) :
                        /\ sc[k] = best
                        /\ r.matched_icd_code = <<icd_codes[k]>>
                        /\ r.matched_description = <<icd_descs[k]>>

\* C6 witness: an entry has been accepted with a score from 85 to 94
\* (Medium) and, in the same batch, another with a score from 95 (High).
C6_Witness ==
    /\ \E i \in Processed :
          /\ results[i].justification.kind = "keyword"
          /\ results[i].justification.value >= 85
          /\ results[i].justification.value < 95
          /\ results[i].confidence_level = "Medium"
    /\ \E i \in Processed :
          /\ results[i].justification.kind = "keyword"
          /\ results[i].confidence_level = "High"

\* C7: embedder.encode is called only for diagnoses the lexical stage
\* accepted no entry for; a semantic result is never High, is Low exactly
\* when the nearest distance exceeds 0.8 and Medium otherwise, and its code
\* is the code at the position of a nearest vector of the index.
C7_SemanticOnlyAfterLexicalMiss ==
    /\ \A j \in 1..Len(encodeLog) : BestScore(encodeLog[j]) < 85
    /\ \A i \in Processed :
        LET r == results[i]
        IN  (r.justification.kind = "semantic") =>
                /\ BestScore(argv[i]) < 85
                /\ r.confidence_level # "High"
                /\ (r.confidence_level = "Low") <=> (r.justification.value > 8)
                /\ (r.confidence_level = "Medium") <=> (r.justification.value <= 8)
                /\ \E p \in 1..Len(index) :
                      /\ \A q \in 1..Len(index) : DistTo(argv[i], p) <= DistTo(argv[i], q)
                      /\ r.justification.value = DistTo(argv[i], p)
                      /\ p <= Len(icd_codes)
                      /\ r.matched_icd_code = <<icd_codes[p]>>

\* C7 witness: a batch with a semantic result at the distance 0.8 exactly
\* (Medium) and a semantic result beyond it (Low).
C7_Witness ==
    /\ \E i \in Processed :
          /\ results[i].justification.kind = "semantic"
          /\ results[i].justification.value = 8
          /\ results[i].confidence_level = "Medium"
    /\ \E i \in Processed :
          /\ results[i].justification.kind = "semantic"
          /\ results[i].justification.value > 8
          /\ results[i].confidence_level = "Low"

\* C8: a semantic result reports as alternatives exactly the second and the
\* third nearest entries, each with the code of its position and its
\* distance, in ascending distance, neither being the primary entry; for
\* catalogs of any size.
C8_AlternativesAreSecondAndThird ==
    \A i \in Processed :
        (results[i].justification.kind = "semantic") =>
            \E p0, p1, p2 \in 1..Len(index) :
                /\ p0 # p1 /\ p0 # p2 /\ p1 # p2
                /\ p0 <= Len(icd_codes) /\ p1 <= Len(icd_codes) /\ p2 <= Len(icd_codes)
                /\ DistTo(argv[i], p0) <= DistTo(argv[i], p1)
                /\ DistTo(argv[i], p1) <= DistTo(argv[i], p2)
                /\ \A q \in 1..Len(index) \ {p0, p1, p2} :
                      DistTo(argv[i], p2) <= DistTo(argv[i], q)
                /\ results[i].matched_icd_code = <<icd_codes[p0]>>
                /\ results[i].alternative_codes =
                      <<[code |-> icd_codes[p1], distance |-> DistTo(argv[i], p1)],
                        [code |-> icd_codes[p2], distance |-> DistTo(argv[i], p2)]>>

\* The entries the composed lines stand for: a line of at least five words
\* gives the second word as code, the fourth as short description, and the
\* text from the fifth word to the last as long description.
RECURSIVE ShapeEntries(_)
ShapeEntries(shapes) ==
    IF shapes = <<>> THEN <<>>
    ELSE LET sh == Head(shapes)
         IN  (IF Len(sh.words) >= 5
              THEN <<[code |-> sh.words[2],
                      short_description |-> sh.words[4],
                      long_description |->
                          JoinWith(SubSeq(sh.words, 5, Len(sh.words)), sh.sep)]>>
              ELSE <<>>)
             \o ShapeEntries(Tail(shapes))

\* C9: setup_icd10_data never raises on a malformed line and produces, in
\* the order of the lines, one entry per line of exactly 5 tokens (after a
\* split limited to 4) and none for another line, with code the 2nd token,
\* short description the 4th and long description the trimmed 5th; the
\* three persisted lists have the length and the order of the entries.
C9_ParseFollowsLines ==
    pc = "done" =>
        LET want == ShapeEntries(shape)
        IN  /\ message = "ICD-10 metadata processed."
            /\ ParseLines(codesTxt.lines) = want
            /\ chunksJson.exists /\ codesJson.exists /\ descsJson.exists
            /\ Len(chunksJson.data) = Len(want)
            /\ Len(codesJson.data) = Len(want)
            /\ Len(descsJson.data) = Len(want)
            /\ \A i \in 1..Len(want) :
                  /\ codesJson.data[i] = want[i].code
                  /\ descsJson.data[i] = want[i].long_description
                  /\ chunksJson.data[i] = ChunkText(want[i])

\* C9 witness: a file of a malformed line followed by a line of more than
\* five words has been parsed into one entry.
C9_Witness ==
    /\ pc = "done"
    /\ Len(shape) = 2
    /\ Len(shape[1].words) \in 1..4
    /\ Len(shape[2].words) > 5
    /\ Len(codesJson.data) = 1
    /\ descsJson.data[1] = JoinWith(SubSeq(shape[2].words, 5, Len(shape[2].words)),
                                    shape[2].sep)

\* C10: building the index from an empty catalog ends in a dedicated
\* EmptyCatalogError outcome that initialization reports as a setup
\* failure: no index file is written, initialize_system does not report
\* success and no matching is run.
C10_EmptyCatalogIsSetupFailure ==
    (/\ pc = "done"
     /\ argv # <<>>
     /\ chunksJson.exists /\ chunksJson.data = <<>>
     /\ ~faissFile.exists
     /\ message # "traceback: model failed to load") =>
        /\ message = "EmptyCatalogError"
        /\ exitStatus = <<1>>
        /\ report = <<>>
        /\ results = <<>>

===========================================================================
